---- MODULE Spec2Model ----
(***************************************************************************)
(* pyzone: a wrapper around zoneadm / zonecfg / zlogin.                    *)
(*                                                                         *)
(* The model has the host (platform, uid, the output of profiles(1)), the  *)
(* external zone registry the tools read and write, and for every caller a *)
(* Zone object (_zone_attr) with the call it is executing.  A call is cut  *)
(* at the places where it runs an external process: what lies between two  *)
(* process runs is one atomic step, and other callers and the external     *)
(* administrator may act in between.                                       *)
(*                                                                         *)
(* Spec is the lifecycle layer with one caller and the external            *)
(* administrator; SpecRace has two callers on one zone and SpecClosed one  *)
(* caller and no administrator; SpecName adds the attribute operations.    *)
(* SpecPerm, SpecProp, SpecAttr, SpecList and SpecRun apply one function   *)
(* (check_user_permissions, add_property, set_attr, list_zones,            *)
(* getoutputs) to drawn inputs.                                            *)
(***************************************************************************)
EXTENDS Integers, Sequences, FiniteSets, TLC

VARIABLES
    uname,            \* os.uname()[0]
    uid,              \* os.getuid()
    profiles_output,  \* stdout of profiles(1), split on "\n" (stripped lines, then "")
    registry,         \* external zone registry: zone name -> state string or "absent"
    zone_attr,        \* caller -> Zone._zone_attr of the caller's Zone object
    pc,               \* caller -> position in the running call ("idle" when none)
    call,             \* caller -> the call being executed / last executed
    obs,              \* caller -> what the guard of the call read and decided
    log,              \* caller -> events of the call: permission checks, process runs
    cmd,              \* caller -> argument vector built by the call, not yet run
    ret,              \* caller -> outcome of the last finished call
    perm_in,          \* argument of the stand-alone check_user_permissions(profiles)
    perm_out,         \* its outcome
    list_in,          \* stand-alone list_zones(pattern): what the tool prints, the pattern
    list_out,         \* its outcome: the process runs and the Zone objects returned
    run_in,           \* stand-alone getoutputs(cmd): the command and what its process does
    run_out           \* its outcome

vars == <<uname, uid, profiles_output, registry, zone_attr, pc, call, obs, log, cmd, ret,
          perm_in, perm_out, list_in, list_out, run_in, run_out>>

-----------------------------------------------------------------------------
(* Module constants                                                        *)

CMD_ZONEADM == "/usr/sbin/zoneadm"
CMD_ZONECFG == "/usr/sbin/zonecfg"
CMD_ZLOGIN  == "/usr/sbin/zlogin"
CMD_PFEXEC  == "/usr/bin/pfexec"

ZONE_ENTRY ==
    [ZID |-> 0, ZNAME |-> 1, ZSTATE |-> 2, ZROOT |-> 3, ZUUID |-> 4, ZBRAND |-> 5,
     ZIPTYPE |-> 6]

ZONE_ENTRY_values == {ZONE_ENTRY[k] : k \in DOMAIN ZONE_ENTRY}

ZONE_STATE ==
    [running |-> 0, installed |-> 1, configured |-> 2, ready |-> 3, incomplete |-> 4]

StateNames == DOMAIN ZONE_STATE

-----------------------------------------------------------------------------
(* Python values that the permission check compares: a str, a tuple or a   *)
(* list of names.  Values of different types are never equal.              *)

PyStr(s) == [ty |-> "str", v |-> <<s>>]
PyTuple(names) == [ty |-> "tuple", v |-> names]
PyList(names) == [ty |-> "list", v |-> names]

SeqRange(s) == {s[k] : k \in 1..Len(s)}

\* the default of the profiles parameter
DefaultProfiles ==
    <<PyStr("Primary Administrator"), PyTuple(<<"Zone Management", "Zone Security">>)>>

\* for i in sublst: if i not in lst: return False
sublist_in(lst, sublst) == \A k \in 1..Len(sublst.v) : PyStr(sublst.v[k]) \in SeqRange(lst)

\* One round of the loop of oneof, for the element i of item_list.
oneof_item(item_list, items, i) ==
    IF i.ty \in {"list", "dict"}
    THEN sublist_in(item_list, i)
    ELSE i \in SeqRange(items)

\* oneof(item_list, items): True as soon as one round returns True
oneof(item_list, items) ==
    \E k \in 1..Len(item_list) : oneof_item(item_list, items, item_list[k])

\* map(strip, profiles_output.split("\n"))[:-1]
prof_list(out) == [k \in 1..(Len(out) - 1) |-> PyStr(out[k])]

\* check_user_permissions without its superuser exit
check_user_permissions_noroot(un, u, out, profiles) ==
    IF un = "SunOS" /\ Len(profiles) > 0
    THEN IF oneof(prof_list(out), profiles) THEN "True" ELSE "False"
    ELSE "PrivilegesError"

\* check_user_permissions(profiles): "True"/"False" (oneof's value, returned),
\* "None" (the superuser's return) or "PrivilegesError" (raised)
check_user_permissions(un, u, out, profiles) ==
    IF un = "SunOS" /\ Len(profiles) > 0
    THEN IF oneof(prof_list(out), profiles) THEN "True" ELSE "False"
    ELSE IF u = 0 THEN "None" ELSE "PrivilegesError"

-----------------------------------------------------------------------------
(* The host and the external tools                                         *)

Callers == {"c1"}
ZoneNames == {"z1", "z2"}
Absent == "absent"

\* the zone a caller's Zone object names, and the zone it clones from
OwnZone(c) == "z1"
SourceZone == "z2"

\* files <template>.xml present in ZONE_TMPL_DIR
TemplateFiles == {"SYSdefault"}

\* One line of `zoneadm list -p`, split on ":" (field k of the line is Line[k]):
\* zoneid:zonename:state:zonepath:uuid:brand:ip-type:r/w:file-mac-profile
ListLine(z, st) ==
    [k \in 0..8 |->
        CASE k = 0 -> IF st \in {"running", "ready"} THEN "1" ELSE "-"
          [] k = 1 -> z
          [] k = 2 -> st
          [] k = 3 -> "/zones/" \o z
          [] k = 4 -> "uuid-" \o z
          [] k = 5 -> "solaris"
          [] k = 6 -> "shared"
          [] k = 7 -> "rw"
          [] OTHER -> "none\n"]

\* What the tool run by operation op does to a zone in state st: the possible
\* <<exit code is zero, state afterwards>>.
ToolOutcomes(op, st) ==
    CASE op = "install" ->
            IF st = "configured"
            THEN {<<TRUE, "installed">>, <<FALSE, "incomplete">>}
            ELSE {<<FALSE, st>>}
      [] op = "uninstall" ->
            IF st \in {"installed", "incomplete"} THEN {<<TRUE, "configured">>}
            ELSE {<<FALSE, st>>}
      [] op = "boot" ->
            IF st = "installed" THEN {<<TRUE, "running">>} ELSE {<<FALSE, st>>}
      [] op = "ready" ->
            IF st = "installed" THEN {<<TRUE, "ready">>} ELSE {<<FALSE, st>>}
      [] op \in {"shutdown", "halt"} ->
            IF st = "running" THEN {<<TRUE, "installed">>} ELSE {<<FALSE, st>>}
      [] op = "reboot" ->
            IF st = "running" THEN {<<TRUE, "running">>} ELSE {<<FALSE, st>>}
      [] op = "delete" ->
            IF st \in {"configured", "incomplete"} THEN {<<TRUE, Absent>>}
            ELSE {<<FALSE, st>>}
      [] op = "create" ->
            IF st = Absent THEN {<<TRUE, "configured">>} ELSE {<<FALSE, st>>}
      [] op = "execute" ->
            IF st = "running" THEN {<<TRUE, st>>, <<FALSE, st>>} ELSE {<<FALSE, st>>}
      [] OTHER ->   \* zonecfg add / remove / set
            IF st # Absent THEN {<<TRUE, st>>} ELSE {<<FALSE, st>>}

-----------------------------------------------------------------------------
(* Events of a call and its outcome                                        *)

Chk(res) == [ev |-> "check", argv |-> <<>>, res |-> res]
Run(argv, ok) == [ev |-> "run", argv |-> argv, res |-> IF ok THEN "0" ELSE "1"]

NoState == 0 - 1

Outcome(kind, why, cmds, allowed, reported) ==
    [kind |-> kind, why |-> why, cmds |-> cmds, allowed |-> allowed,
     reported |-> reported]

NoRet == Outcome("none", "", <<>>, {}, NoState)
Value(cmds) == Outcome("value", "", cmds, {}, NoState)
Raise(kind, why) == Outcome(kind, why, <<>>, {}, NoState)
StateError(allowed, reported) == Outcome("ZoneException", "state", <<>>, allowed, reported)

\* what a guard read: the state, whether it passed, and whether the state the
\* object held before the read differed from the one read
NoObs == [queried |-> FALSE, state |-> "", passed |-> FALSE, stale |-> FALSE]
\* a call: the operation, its print_cmd flag, its string arguments (a1, a2), its
\* dict argument (opts) and its integer argument (key)
Call(op, print_cmd, a1, a2, opts) ==
    [op |-> op, print_cmd |-> print_cmd, a1 |-> a1, a2 |-> a2, opts |-> opts,
     key |-> NoState]
NoCall == Call("", FALSE, "", "", {})

\* the events of one check_user_permissions(): on SunOS it runs profiles(1),
\* through getoutputs(["profiles"], False); profiles(1) is taken to exit with 0
CheckResult == check_user_permissions(uname, uid, profiles_output, DefaultProfiles)
CheckEvents ==
    (IF uname = "SunOS" THEN <<Run(<<"profiles">>, TRUE)>> ELSE <<>>)
        \o <<Chk(CheckResult)>>
CheckRaises == CheckResult = "PrivilegesError"

-----------------------------------------------------------------------------
(* Command construction                                                    *)

RECURSIVE Join(_, _)
\* sep.join(parts)
Join(parts, sep) ==
    IF Len(parts) = 0 THEN ""
    ELSE IF Len(parts) = 1 THEN parts[1]
    ELSE parts[1] \o sep \o Join(Tail(parts), sep)

\* state_cmd of refresh_all_info
StateCmd(zname) == <<CMD_ZONEADM, "-z", zname, "list", "-p">>

\* cmd of list_zones
ListCmd == <<CMD_ZONEADM, "list", "-pc">>

\* state_list with boot's tuple widened by ready
state_list_boot_ready(op) ==
    CASE op = "boot" ->
            [iterable |-> TRUE, items |-> {ZONE_STATE.installed, ZONE_STATE.ready}]
      [] op = "ready" ->
            [iterable |-> TRUE, items |-> {ZONE_STATE.installed}]
      [] op \in {"shutdown", "halt", "reboot", "execute"} ->
            [iterable |-> TRUE, items |-> {ZONE_STATE.running}]
      [] op = "install" ->
            [iterable |-> TRUE, items |-> {ZONE_STATE.configured}]
      [] op = "uninstall" ->
            [iterable |-> TRUE, items |-> {ZONE_STATE.installed, ZONE_STATE.incomplete}]
      [] op = "delete" ->
            [iterable |-> TRUE, items |-> {ZONE_STATE.configured, ZONE_STATE.incomplete}]
      [] OTHER ->
            [iterable |-> FALSE, items |-> {ZONE_STATE.installed}]

\* The argument each operation passes to _zone_in_states: a tuple of ZONE_STATE
\* values, except in clone, whose (ZONE_STATE['installed']) is the bare integer.
state_list(op) ==
    CASE op \in {"boot", "ready"} ->
            [iterable |-> TRUE, items |-> {ZONE_STATE.installed}]
      [] op \in {"shutdown", "halt", "reboot", "execute"} ->
            [iterable |-> TRUE, items |-> {ZONE_STATE.running}]
      [] op = "install" ->
            [iterable |-> TRUE, items |-> {ZONE_STATE.configured}]
      [] op = "uninstall" ->
            [iterable |-> TRUE, items |-> {ZONE_STATE.installed, ZONE_STATE.incomplete}]
      [] op = "delete" ->
            [iterable |-> TRUE, items |-> {ZONE_STATE.configured, ZONE_STATE.incomplete}]
      [] OTHER ->   \* clone
            [iterable |-> FALSE, items |-> {ZONE_STATE.installed}]

\* The command a state-guarded operation builds once its guard has passed;
\* name is self.get_name().
GuardedCmd(cl, name) ==
    CASE cl.op \in {"boot", "ready", "shutdown", "halt", "install"} ->
            <<CMD_PFEXEC, CMD_ZONEADM, "-z", name, cl.op>>
      [] cl.op = "reboot" -> <<CMD_PFEXEC, CMD_ZONEADM, "-z", name, "shutdown", "-r">>
      [] cl.op = "uninstall" -> <<CMD_PFEXEC, CMD_ZONEADM, "-z", name, "uninstall", "-F">>
      [] cl.op = "delete" -> <<CMD_PFEXEC, CMD_ZONECFG, "-z", name, "delete", "-F">>
      [] cl.op = "execute" ->
            <<CMD_PFEXEC, CMD_ZLOGIN>>
                \o (IF cl.a2 # "" THEN <<"-l", cl.a2>> ELSE <<>>)
                \o <<name, cl.a1>>
      [] OTHER ->   \* clone
            <<CMD_PFEXEC, CMD_ZONEADM, "-z", name, "clone", SourceZone>>

\* cmd_base of _create_minimal
CreateCmd(name, template, zonepath) ==
    <<"pfexec", CMD_ZONECFG, "-z", name,
      Join(<<"create -t " \o template, "set zonepath=" \o zonepath, "exit">>, ";")>>

\* available_properties of add_property
available_properties ==
    ("capped-memory" :> <<"physical", "swap", "locked">>)
        @@ ("capped-cpu" :> <<"ncpus">>)
        @@ ("fs" :> <<"dir", "special", "type">>)
        @@ ("dataset" :> <<"name">>)

\* a dict as the set of its (key, value) items
DictKeys(opts) == {p[1] : p \in opts}
DictGet(opts, key) == (CHOOSE p \in opts : p[1] = key)[2]

\* zonecfg_cmd of add_property; order is the order in which the dict yields its keys
AddPropertyCmd(name, pname, opts, order) ==
    <<CMD_PFEXEC, CMD_ZONECFG, "-z", name,
      Join(<<"add " \o pname>>
             \o [k \in 1..Len(order) |-> "set " \o order[k] \o "=" \o DictGet(opts, order[k])]
             \o <<"end", "exit">>, ";")>>

\* zonecfg_cmd of remove_property
RemovePropertyCmd(name, pname) ==
    <<CMD_PFEXEC, CMD_ZONECFG, "-z", name, "remove " \o pname \o "; exit">>

\* cmd_base of _zonecfg_set with a script that does not end in exit
ZonecfgSetCmd_no_exit(name, attr, value) ==
    <<CMD_PFEXEC, CMD_ZONECFG, "-z", name, "set " \o attr \o "=" \o value>>

\* cmd_base of _zonecfg_set
ZonecfgSetCmd(name, attr, value) ==
    <<CMD_PFEXEC, CMD_ZONECFG, "-z", name, "set " \o attr \o "=" \o value \o ";exit">>

-----------------------------------------------------------------------------
(* The Zone object and the registry listing                                *)

\* Zone.__init__(name): set_attr(ZONE_ENTRY['ZNAME'], name) on an empty dict
NewZone(name) == (ZONE_ENTRY.ZNAME :> name)

\* get_name(refresh=False)
get_name(attrs) == attrs[ZONE_ENTRY.ZNAME]

\* the registry's answer for a zone name
RegState(zname) == IF zname \in DOMAIN registry THEN registry[zname] ELSE Absent

\* the loop of refresh_all_info storing under each key the field after its own
Refreshed_shifted(attrs, line) ==
    [k \in DOMAIN attrs \cup ZONE_ENTRY_values |->
        IF k \in ZONE_ENTRY_values THEN line[k + 1] ELSE attrs[k]]

\* the loop of refresh_all_info over the split line
Refreshed(attrs, line) ==
    [k \in DOMAIN attrs \cup ZONE_ENTRY_values |->
        IF k \in ZONE_ENTRY_values THEN line[k] ELSE attrs[k]]

\* set_attr on a whitelisted key
WithAttr(attrs, attr, value) ==
    [k \in DOMAIN attrs \cup {attr} |-> IF k = attr THEN value ELSE attrs[k]]

RECURSIVE ListingOf(_)
\* the lines `zoneadm list -pc` prints: one per configured zone
ListingOf(names) ==
    IF Len(names) = 0 THEN <<>>
    ELSE (IF registry[names[1]] # Absent
          THEN <<ListLine(names[1], registry[names[1]])>> ELSE <<>>)
            \o ListingOf(Tail(names))

ListOutput == ListingOf(<<"z1", "z2">>)

\* list_zones() without pattern: one Zone per line, attributes from fields 0..6
list_zones(lines) ==
    [k \in 1..Len(lines) |-> [i \in ZONE_ENTRY_values |-> lines[k][i]]]

\* exists() that never finds the zone
exists_never(lines, zname) == FALSE

\* exists(): bool(get_zone_by_name(self.get_name(refresh=False)))
exists(lines, zname) ==
    \E k \in 1..Len(lines) : get_name(list_zones(lines)[k]) = zname

-----------------------------------------------------------------------------
(* Steps of a call                                                         *)

host == <<uname, uid, profiles_output>>
perm == <<perm_in, perm_out>>
pure == <<list_in, list_out, run_in, run_out>>

Goto(c, where, argv) ==
    /\ pc' = [pc EXCEPT ![c] = where]
    /\ cmd' = [cmd EXCEPT ![c] = argv]
    /\ ret' = [ret EXCEPT ![c] = NoRet]

Return(c, outcome) ==
    /\ pc' = [pc EXCEPT ![c] = "idle"]
    /\ cmd' = [cmd EXCEPT ![c] = <<>>]
    /\ ret' = [ret EXCEPT ![c] = outcome]

Logged(c, events) == log' = [log EXCEPT ![c] = @ \o events]

\* The start of an operation whose first statement is check_user_permissions():
\* the check, then on to the operation's first process run.
StartChecked(c, cl, where, argv) ==
    /\ pc[c] = "idle"
    /\ call' = [call EXCEPT ![c] = cl]
    /\ obs' = [obs EXCEPT ![c] = NoObs]
    /\ log' = [log EXCEPT ![c] = CheckEvents]
    /\ IF CheckRaises
       THEN Return(c, Raise("PrivilegesError", ""))
       ELSE Goto(c, where, argv)
    /\ UNCHANGED <<host, perm, pure, registry, zone_attr>>

\* The start of an operation that begins with its guard (no check of its own).
StartUnchecked(c, cl) ==
    /\ pc[c] = "idle"
    /\ call' = [call EXCEPT ![c] = cl]
    /\ obs' = [obs EXCEPT ![c] = NoObs]
    /\ log' = [log EXCEPT ![c] = <<>>]
    /\ Goto(c, "guard", <<>>)
    /\ UNCHANGED <<host, perm, pure, registry, zone_attr>>

Boot(c, print_cmd) == StartChecked(c, Call("boot", print_cmd, "", "", {}), "guard", <<>>)
Ready(c) == StartChecked(c, Call("ready", FALSE, "", "", {}), "guard", <<>>)
Shutdown(c) == StartChecked(c, Call("shutdown", FALSE, "", "", {}), "guard", <<>>)
Halt(c) == StartChecked(c, Call("halt", FALSE, "", "", {}), "guard", <<>>)
Reboot(c) == StartChecked(c, Call("reboot", FALSE, "", "", {}), "guard", <<>>)
Install(c, print_cmd) ==
    StartChecked(c, Call("install", print_cmd, "", "", {}), "guard", <<>>)
Uninstall(c) == StartChecked(c, Call("uninstall", FALSE, "", "", {}), "guard", <<>>)
Delete(c) == StartChecked(c, Call("delete", FALSE, "", "", {}), "guard", <<>>)
\* create without its check_user_permissions()
Create_nocheck(c, template, print_cmd) ==
    /\ pc[c] = "idle"
    /\ call' = [call EXCEPT ![c] = Call("create", print_cmd, template, "", {})]
    /\ obs' = [obs EXCEPT ![c] = NoObs]
    /\ log' = [log EXCEPT ![c] = <<>>]
    /\ Goto(c, "lookup", <<>>)
    /\ UNCHANGED <<host, perm, pure, registry, zone_attr>>

Create(c, template, print_cmd) ==
    StartChecked(c, Call("create", print_cmd, template, "", {}), "lookup", <<>>)
ZonecfgSet(c, attr, value) ==
    StartChecked(c, Call("zonecfg_set", FALSE, attr, value, {}), "exec",
                 ZonecfgSetCmd(get_name(zone_attr[c]), attr, value))

Execute(c, command, user, print_cmd) ==
    StartUnchecked(c, Call("execute", print_cmd, command, user, {}))
Clone(c, print_cmd) == StartUnchecked(c, Call("clone", print_cmd, "", "", {}))

\* the Zone object whose _zone_in_states the call uses: in clone, source_zone
GuardedName(c) ==
    IF call[c].op = "clone" THEN get_name(NewZone(SourceZone)) ELSE get_name(zone_attr[c])

\* AfterGuard without the print_cmd test
AfterGuard_no_dry_run(c) ==
    LET argv == GuardedCmd(call[c], get_name(zone_attr[c])) IN
    IF call[c].op = "clone" THEN Return(c, Raise("NameError", ""))
    ELSE Goto(c, "exec", argv)

\* the state the guarded Zone object holds from earlier reads ("" when none):
\* get_attr(ZONE_ENTRY['ZSTATE'], refresh=False)
HeldState(c) ==
    IF call[c].op # "clone" /\ ZONE_ENTRY.ZSTATE \in DOMAIN zone_attr[c]
    THEN zone_attr[c][ZONE_ENTRY.ZSTATE] ELSE ""

\* What follows a guard that did not raise: the command is built, then returned
\* (print_cmd) or handed to getoutputs; clone hands over the undefined install_cmd.
AfterGuard(c) ==
    LET argv == GuardedCmd(call[c], get_name(zone_attr[c])) IN
    IF call[c].print_cmd THEN Return(c, Value(<<argv>>))
    ELSE IF call[c].op = "clone" THEN Return(c, Raise("NameError", ""))
    ELSE Goto(c, "exec", argv)

\* _zone_in_states with get_state(refresh=False): the test is made on the state
\* the object holds, and only an object that holds none asks the tool
GuardQuery_held(c) ==
    /\ pc[c] = "guard"
    /\ LET zname == GuardedName(c)
           st == IF HeldState(c) # "" THEN HeldState(c) ELSE RegState(zname)
           sl == state_list(call[c].op)
       IN
       IF CheckRaises
       THEN /\ Logged(c, CheckEvents)
            /\ Return(c, Raise("PrivilegesError", ""))
            /\ UNCHANGED <<zone_attr, obs>>
       ELSE IF st = Absent
       THEN /\ Logged(c, CheckEvents \o <<Run(StateCmd(zname), FALSE)>>)
            /\ Return(c, Raise("OSError", ""))
            /\ UNCHANGED <<zone_attr, obs>>
       ELSE LET line == ListLine(zname, st)
                attrs == Refreshed(zone_attr[c], line)
                n == ZONE_STATE[line[ZONE_ENTRY.ZSTATE]]
            IN
            /\ Logged(c, CheckEvents \o <<Run(StateCmd(zname), TRUE)>>)
            /\ zone_attr' = IF call[c].op = "clone" THEN zone_attr
                            ELSE [zone_attr EXCEPT ![c] = attrs]
            /\ obs' = [obs EXCEPT ![c] =
                          [queried |-> TRUE, state |-> line[ZONE_ENTRY.ZSTATE],
                           passed |-> sl.iterable /\ n \in sl.items,
                           stale |-> FALSE]]
            /\ IF ~sl.iterable THEN Return(c, Raise("TypeError", ""))
               ELSE IF n \notin sl.items THEN Goto(c, "errmsg", <<>>)
               ELSE AfterGuard(c)
    /\ UNCHANGED <<host, perm, pure, registry, call>>

\* _zone_in_states up to its test: get_state() refreshes from `zoneadm -z <name>
\* list -p` (through getoutputs, which checks the permissions), then the
\* membership test on state_list.
GuardQuery(c) ==
    /\ pc[c] = "guard"
    /\ LET zname == GuardedName(c)
           st == RegState(zname)
           sl == state_list(call[c].op)
       IN
       IF CheckRaises
       THEN /\ Logged(c, CheckEvents)
            /\ Return(c, Raise("PrivilegesError", ""))
            /\ UNCHANGED <<zone_attr, obs>>
       ELSE IF st = Absent
       THEN /\ Logged(c, CheckEvents \o <<Run(StateCmd(zname), FALSE)>>)
            /\ Return(c, Raise("OSError", ""))
            /\ UNCHANGED <<zone_attr, obs>>
       ELSE LET line == ListLine(zname, st)
                attrs == Refreshed(zone_attr[c], line)
                n == ZONE_STATE[line[ZONE_ENTRY.ZSTATE]]
            IN
            /\ Logged(c, CheckEvents \o <<Run(StateCmd(zname), TRUE)>>)
            /\ zone_attr' = IF call[c].op = "clone" THEN zone_attr
                            ELSE [zone_attr EXCEPT ![c] = attrs]
            /\ obs' = [obs EXCEPT ![c] =
                          [queried |-> TRUE, state |-> line[ZONE_ENTRY.ZSTATE],
                           passed |-> sl.iterable /\ n \in sl.items,
                           stale |-> HeldState(c) \notin {"", line[ZONE_ENTRY.ZSTATE]}]]
            /\ IF ~sl.iterable THEN Return(c, Raise("TypeError", ""))
               ELSE IF n \notin sl.items THEN Goto(c, "errmsg", <<>>)
               ELSE AfterGuard(c)
    /\ UNCHANGED <<host, perm, pure, registry, call>>

\* The raise of _zone_in_states: the message is formatted from self.get_name(),
\* state_list and a second self.get_state(), which queries the tool again.
ErrQuery(c) ==
    /\ pc[c] = "errmsg"
    /\ LET zname == GuardedName(c)
           st == RegState(zname)
           sl == state_list(call[c].op)
       IN
       IF CheckRaises
       THEN /\ Logged(c, CheckEvents)
            /\ Return(c, Raise("PrivilegesError", ""))
            /\ UNCHANGED zone_attr
       ELSE IF st = Absent
       THEN /\ Logged(c, CheckEvents \o <<Run(StateCmd(zname), FALSE)>>)
            /\ Return(c, Raise("OSError", ""))
            /\ UNCHANGED zone_attr
       ELSE LET line == ListLine(zname, st) IN
            /\ Logged(c, CheckEvents \o <<Run(StateCmd(zname), TRUE)>>)
            /\ zone_attr' = IF call[c].op = "clone" THEN zone_attr
                            ELSE [zone_attr EXCEPT ![c] = Refreshed(@, line)]
            /\ Return(c, StateError(sl.items, ZONE_STATE[line[ZONE_ENTRY.ZSTATE]]))
    /\ UNCHANGED <<host, perm, pure, registry, call, obs>>

\* _create_minimal after its permission check: exists() lists the zones (Popen
\* in list_zones, no permission check; `zoneadm list -pc` is taken to exit with
\* 0), then the template check, then the command.
Lookup(c) ==
    /\ pc[c] = "lookup"
    /\ LET name == get_name(zone_attr[c])
           found == exists(ListOutput, name)
           template == call[c].a1
       IN
       /\ Logged(c, <<Run(ListCmd, TRUE)>>)
       /\ obs' = [obs EXCEPT ![c] =
                     [queried |-> TRUE, state |-> RegState(name),
                      passed |-> ~found /\ template \in TemplateFiles,
                      stale |-> FALSE]]
       /\ IF found THEN Return(c, Raise("ZoneException", "exists"))
          ELSE IF template \notin TemplateFiles
          THEN Return(c, Raise("ZoneException", "template"))
          ELSE IF ZONE_ENTRY.ZROOT \notin DOMAIN zone_attr[c]
          THEN Return(c, Raise("KeyError", ""))
          ELSE LET argv == CreateCmd(name, template, zone_attr[c][ZONE_ENTRY.ZROOT]) IN
               IF call[c].print_cmd THEN Return(c, Value(<<argv>>))
               ELSE Goto(c, "exec", argv)
    /\ UNCHANGED <<host, perm, pure, registry, call, zone_attr>>

\* Exec behind a second look at the state: the command is run only with the
\* zone still in an allowed state
Exec_rechecked(c) ==
    /\ pc[c] = "exec"
    /\ LET name == get_name(zone_attr[c])
           sl == state_list(call[c].op)
       IN
       IF CheckRaises
       THEN /\ Logged(c, CheckEvents)
            /\ Return(c, Raise("PrivilegesError", ""))
            /\ UNCHANGED registry
       ELSE IF call[c].op \in {"install", "boot"}
               /\ (RegState(name) = Absent \/ ZONE_STATE[RegState(name)] \notin sl.items)
       THEN /\ Logged(c, CheckEvents)
            /\ Return(c, StateError(sl.items, NoState))
            /\ UNCHANGED registry
       ELSE \E out \in ToolOutcomes(call[c].op, RegState(name)) :
            /\ Logged(c, CheckEvents \o <<Run(cmd[c], out[1])>>)
            /\ registry' = IF name \in DOMAIN registry
                           THEN [registry EXCEPT ![name] = out[2]] ELSE registry
            /\ Return(c, IF out[1] THEN Value(<<>>) ELSE Raise("OSError", ""))
    /\ UNCHANGED <<host, perm, pure, call, obs, zone_attr>>

\* getoutputs(cmd) on the command the operation built: the permission check,
\* then the process; a non-zero exit code raises OSError.
Exec(c) ==
    /\ pc[c] = "exec"
    /\ LET name == get_name(zone_attr[c]) IN
       IF CheckRaises
       THEN /\ Logged(c, CheckEvents)
            /\ Return(c, Raise("PrivilegesError", ""))
            /\ UNCHANGED registry
       ELSE \E out \in ToolOutcomes(call[c].op, RegState(name)) :
            /\ Logged(c, CheckEvents \o <<Run(cmd[c], out[1])>>)
            /\ registry' = IF name \in DOMAIN registry
                           THEN [registry EXCEPT ![name] = out[2]] ELSE registry
            /\ Return(c, IF out[1] THEN Value(<<>>) ELSE Raise("OSError", ""))
    /\ UNCHANGED <<host, perm, pure, call, obs, zone_attr>>

-----------------------------------------------------------------------------
(* Operations that run no process before their command                     *)

\* the orders in which a dict with these keys can yield them
Orders(keys) ==
    {o \in [1..Cardinality(keys) -> keys] : \A i, j \in DOMAIN o : o[i] = o[j] => i = j}

\* the key test of add_property with extra keys let through
opts_match_superset(pname, opts) ==
    SeqRange(available_properties[pname]) \subseteq DictKeys(opts)

\* set(opts.keys()) == set(available_properties[name])
opts_match(pname, opts) == DictKeys(opts) = SeqRange(available_properties[pname])

\* add_property(name, opts, print_cmd): validation, then the zonecfg command.
\* The message of the KeyError for an unknown name has two %s and one value, so
\* formatting it raises TypeError.
AddProperty(c, pname, opts, print_cmd) ==
    /\ pc[c] = "idle"
    /\ call' = [call EXCEPT ![c] = Call("add_property", print_cmd, pname, "", opts)]
    /\ obs' = [obs EXCEPT ![c] = NoObs]
    /\ log' = [log EXCEPT ![c] = <<>>]
    /\ IF pname \notin DOMAIN available_properties
       THEN Return(c, Raise("TypeError", ""))
       ELSE IF ~opts_match(pname, opts)
       THEN Return(c, Raise("ValueError", ""))
       ELSE \E order \in Orders(DictKeys(opts)) :
            LET argv == AddPropertyCmd(get_name(zone_attr[c]), pname, opts, order) IN
            IF print_cmd THEN Return(c, Value(<<argv>>)) ELSE Goto(c, "exec", argv)
    /\ UNCHANGED <<host, perm, pure, registry, zone_attr>>

\* remove_property(property_name, print_cmd)
RemoveProperty(c, pname, print_cmd) ==
    /\ pc[c] = "idle"
    /\ call' = [call EXCEPT ![c] = Call("remove_property", print_cmd, pname, "", {})]
    /\ obs' = [obs EXCEPT ![c] = NoObs]
    /\ log' = [log EXCEPT ![c] = <<>>]
    /\ LET argv == RemovePropertyCmd(get_name(zone_attr[c]), pname) IN
       IF print_cmd THEN Return(c, Value(<<argv>>)) ELSE Goto(c, "exec", argv)
    /\ UNCHANGED <<host, perm, pure, registry, zone_attr>>

\* set_attr without its whitelist test
set_attr_any(attrs, attr, value) ==
    [attrs |-> WithAttr(attrs, attr, value), raised |-> FALSE]

\* set_attr(attr, value): the new _zone_attr and whether ZoneException is raised
set_attr(attrs, attr, value) ==
    IF attr \in ZONE_ENTRY_values
    THEN [attrs |-> WithAttr(attrs, attr, value), raised |-> FALSE]
    ELSE [attrs |-> attrs, raised |-> TRUE]

SetAttr(c, attr, value) ==
    /\ pc[c] = "idle"
    /\ call' = [call EXCEPT ![c] =
                   [Call("set_attr", FALSE, value, "", {}) EXCEPT !.key = attr]]
    /\ obs' = [obs EXCEPT ![c] = NoObs]
    /\ log' = [log EXCEPT ![c] = <<>>]
    /\ LET r == set_attr(zone_attr[c], attr, value) IN
       /\ zone_attr' = [zone_attr EXCEPT ![c] = r.attrs]
       /\ Return(c, IF r.raised THEN Raise("ZoneException", "attr") ELSE Value(<<>>))
    /\ UNCHANGED <<host, perm, pure, registry>>

\* set_zonepath(path)
SetZonepath(c, path) == SetAttr(c, ZONE_ENTRY.ZROOT, path)

\* the operations whose def has no print_cmd parameter
NoPrintCmdOps == {"ready", "shutdown", "halt", "reboot", "uninstall", "delete"}

\* op(print_cmd=True) on an operation defined as `def op(self)`: the call raises
\* TypeError (unexpected keyword argument) before the body runs
PrintCmdRefused(c, op) ==
    /\ pc[c] = "idle"
    /\ op \in NoPrintCmdOps
    /\ call' = [call EXCEPT ![c] = Call(op, TRUE, "", "", {})]
    /\ obs' = [obs EXCEPT ![c] = NoObs]
    /\ log' = [log EXCEPT ![c] = <<>>]
    /\ Return(c, Raise("TypeError", ""))
    /\ UNCHANGED <<host, perm, pure, registry, zone_attr>>

\* a call that returns the value v
Returned(v) == Outcome("value", v, <<>>, {}, NoState)

\* get_attr(attr, refresh), and through it get_name, get_state, get_zonepath:
\* with refresh, refresh_all_info() first (getoutputs on state_cmd: the
\* permission check, then the query); then self._zone_attr[attr], KeyError when
\* the key is not there.  get_state maps the value through ZONE_STATE.
GetAttr(c, attr, refresh) ==
    /\ pc[c] = "idle"
    /\ call' = [call EXCEPT ![c] =
                   [Call("get_attr", FALSE, IF refresh THEN "refresh" ELSE "", "", {})
                       EXCEPT !.key = attr]]
    /\ obs' = [obs EXCEPT ![c] = NoObs]
    /\ LET zname == get_name(zone_attr[c])
           st == RegState(zname)
           attrs == IF refresh /\ ~CheckRaises /\ st # Absent
                    THEN Refreshed(zone_attr[c], ListLine(zname, st))
                    ELSE zone_attr[c]
       IN
       /\ zone_attr' = [zone_attr EXCEPT ![c] = attrs]
       /\ log' = [log EXCEPT ![c] =
                     IF ~refresh THEN <<>>
                     ELSE IF CheckRaises THEN CheckEvents
                     ELSE CheckEvents \o <<Run(StateCmd(zname), st # Absent)>>]
       /\ Return(c, IF refresh /\ CheckRaises THEN Raise("PrivilegesError", "")
                    ELSE IF refresh /\ st = Absent THEN Raise("OSError", "")
                    ELSE IF attr \notin DOMAIN attrs THEN Raise("KeyError", "")
                    ELSE Returned(attrs[attr]))
    /\ UNCHANGED <<host, perm, pure, registry>>

\* refresh_all_info()
RefreshAllInfo(c) ==
    /\ pc[c] = "idle"
    /\ call' = [call EXCEPT ![c] = Call("refresh_all_info", FALSE, "", "", {})]
    /\ obs' = [obs EXCEPT ![c] = NoObs]
    /\ LET zname == get_name(zone_attr[c])
           st == RegState(zname)
       IN
       IF CheckRaises
       THEN /\ log' = [log EXCEPT ![c] = CheckEvents]
            /\ Return(c, Raise("PrivilegesError", ""))
            /\ UNCHANGED zone_attr
       ELSE IF st = Absent
       THEN /\ log' = [log EXCEPT ![c] = CheckEvents \o <<Run(StateCmd(zname), FALSE)>>]
            /\ Return(c, Raise("OSError", ""))
            /\ UNCHANGED zone_attr
       ELSE /\ log' = [log EXCEPT ![c] = CheckEvents \o <<Run(StateCmd(zname), TRUE)>>]
            /\ zone_attr' = [zone_attr EXCEPT ![c] = Refreshed(@, ListLine(zname, st))]
            /\ Return(c, Value(<<>>))
    /\ UNCHANGED <<host, perm, pure, registry>>

\* Another administrator, or the zone itself, changes the registry.
ExternalChange(z, st) ==
    /\ registry[z] # st
    /\ registry' = [registry EXCEPT ![z] = st]
    /\ UNCHANGED <<host, perm, pure, zone_attr, pc, call, obs, log, cmd, ret>>

\* check_user_permissions(profiles) called on its own
CheckPerm ==
    /\ perm_out = "none"
    /\ perm_out' = check_user_permissions(uname, uid, profiles_output, perm_in)
    /\ UNCHANGED <<host, pure, perm_in, registry, zone_attr, pc, call, obs, log, cmd, ret>>

-----------------------------------------------------------------------------
(* Specifications                                                          *)

Platforms == {"SunOS", "Linux"}
Uids == {0, 100}
ZonePaths == {"/export/z1"}
Templates == {"SYSdefault", "nosuch"}

\* no stand-alone list_zones or getoutputs call
InitPure ==
    /\ list_in = <<>>
    /\ list_out = <<>>
    /\ run_in = <<>>
    /\ run_out = <<>>

InitObjects ==
    /\ zone_attr = [c \in Callers |-> NewZone(OwnZone(c))]
    /\ pc = [c \in Callers |-> "idle"]
    /\ call = [c \in Callers |-> NoCall]
    /\ obs = [c \in Callers |-> NoObs]
    /\ log = [c \in Callers |-> <<>>]
    /\ cmd = [c \in Callers |-> <<>>]
    /\ ret = [c \in Callers |-> NoRet]

\* the shape of the state
TypeOK ==
    /\ uname \in Platforms
    /\ uid \in Uids
    /\ registry \in [ZoneNames -> StateNames \cup {Absent}]
    /\ \A c \in DOMAIN pc :
          /\ pc[c] \in {"idle", "guard", "errmsg", "lookup", "exec"}
          /\ ZONE_ENTRY.ZNAME \in DOMAIN zone_attr[c]
          /\ DOMAIN zone_attr[c] \subseteq ZONE_ENTRY_values
          /\ obs[c].queried \in BOOLEAN
          /\ ret[c].kind \in {"none", "value", "ZoneException", "PrivilegesError",
                              "OSError", "TypeError", "KeyError", "ValueError",
                              "NameError"}
          /\ (cmd[c] # <<>>) <=> (pc[c] = "exec")
          /\ (ret[c] = NoRet) <=> (pc[c] # "idle" \/ call[c] = NoCall)

Init ==
    /\ uname \in Platforms
    /\ uid \in Uids
    /\ profiles_output = <<"Zone Management", "Zone Security", "">>
    /\ registry = [z \in ZoneNames |-> IF z = SourceZone THEN "installed" ELSE Absent]
    /\ perm_in = DefaultProfiles
    /\ perm_out = "none"
    /\ InitPure
    /\ InitObjects

Next ==
    \/ \E c \in DOMAIN pc, p \in BOOLEAN : Boot(c, p)
    \/ \E c \in DOMAIN pc : Ready(c)
    \/ \E c \in DOMAIN pc : Shutdown(c)
    \/ \E c \in DOMAIN pc : Halt(c)
    \/ \E c \in DOMAIN pc : Reboot(c)
    \/ \E c \in DOMAIN pc, p \in BOOLEAN : Install(c, p)
    \/ \E c \in DOMAIN pc : Uninstall(c)
    \/ \E c \in DOMAIN pc : Delete(c)
    \/ \E c \in DOMAIN pc, p \in BOOLEAN : Clone(c, p)
    \/ \E c \in DOMAIN pc, t \in Templates, p \in BOOLEAN : Create(c, t, p)
    \/ \E c \in DOMAIN pc, u \in {"root", ""}, p \in BOOLEAN : Execute(c, "ls", u, p)
    \/ \E c \in DOMAIN pc, p \in BOOLEAN :
          AddProperty(c, "capped-cpu", {<<"ncpus", "2">>}, p)
    \/ \E c \in DOMAIN pc, p \in BOOLEAN : RemoveProperty(c, "fs", p)
    \/ \E c \in DOMAIN pc : ZonecfgSet(c, "autoboot", "true")
    \/ \E c \in DOMAIN pc, path \in ZonePaths : SetZonepath(c, path)
    \/ \E c \in DOMAIN pc, op \in NoPrintCmdOps : PrintCmdRefused(c, op)
    \/ \E c \in DOMAIN pc : GuardQuery(c)
    \/ \E c \in DOMAIN pc : ErrQuery(c)
    \/ \E c \in DOMAIN pc : Lookup(c)
    \/ \E c \in DOMAIN pc : Exec(c)
    \/ \E z \in ZoneNames, st \in StateNames \cup {Absent} : ExternalChange(z, st)

Spec == Init /\ [][Next]_vars

-----------------------------------------------------------------------------
(* The permission check on its own: SpecPerm draws the platform, the uid,  *)
(* the user's profile list and the required-profile specification.        *)

MaxTerms == 2

ProfileNames ==
    <<"Primary Administrator", "Zone Management", "Zone Security", "Basic Solaris User">>

TermUniverse ==
    {PyStr("Primary Administrator"), PyStr("Zone Management"),
     PyTuple(<<"Zone Management", "Zone Security">>),
     PyList(<<"Zone Management", "Zone Security">>)}

RequiredSpecs == UNION {[1..n -> TermUniverse] : n \in 0..MaxTerms}

\* what profiles(1) prints for a user holding the profiles in held
OutputFor(held) == SelectSeq(ProfileNames, LAMBDA x : x \in held) \o <<"">>

InitPerm ==
    /\ uname \in Platforms
    /\ uid \in Uids
    /\ profiles_output \in {OutputFor(held) : held \in SUBSET SeqRange(ProfileNames)}
    /\ perm_in \in RequiredSpecs
    /\ perm_out = "none"
    /\ InitPure
    /\ registry = [z \in ZoneNames |-> Absent]
    /\ InitObjects

NextPerm == CheckPerm

SpecPerm == InitPerm /\ [][NextPerm]_vars

\* the names the user holds
Held == {profiles_output[k] : k \in 1..(Len(profiles_output) - 1)}

\* OR-of-ANDs: some term is satisfied; a single name if held, a group if all held
TermSatisfied(term) ==
    IF term.ty = "str" THEN term.v[1] \in Held ELSE \A n \in SeqRange(term.v) : n \in Held
Satisfied(required) == \E k \in 1..Len(required) : TermSatisfied(required[k])

\* C2: every caller that is not the superuser and whose profile list does not
\* satisfy the required-profile specification gets PrivilegesError, on every
\* platform.  (The code returns oneof's value on SunOS instead of raising.)
C2_NonRootUnmatchedRaises ==
    (perm_out # "none" /\ uid # 0 /\ ~Satisfied(perm_in)) => perm_out = "PrivilegesError"

\* C3: the profile-matching decision is the OR-of-ANDs of the specification:
\* whenever the check decides by the profile list, it is satisfied iff some term
\* of the specification is satisfied.  (The code never satisfies a group term.)
C3_MatchIsOrOfAnds ==
    perm_out \in {"True", "False"} => ((perm_out = "True") <=> Satisfied(perm_in))

\* C4: a permission check made with uid 0 never raises PrivilegesError, whatever
\* the profile list, the required specification and the platform.
C4_RootNeverRefused == (perm_out # "none" /\ uid = 0) => perm_out # "PrivilegesError"

C4_Witness ==
    /\ uid = 0
    /\ uname # "SunOS"
    /\ Held = {}
    /\ perm_in = DefaultProfiles
    /\ perm_out = "None"

-----------------------------------------------------------------------------
(* Claims about the lifecycle operations, under Spec                       *)

GuardedOps ==
    {"install", "uninstall", "boot", "ready", "shutdown", "halt", "reboot", "delete",
     "execute"}

MutatingOps ==
    GuardedOps \cup {"create", "clone", "add_property", "remove_property"}

\* the allowed states of the operations, as the specification's table gives them
AllowedByTable(op) ==
    CASE op = "install" -> {"configured"}
      [] op = "uninstall" -> {"installed", "incomplete"}
      [] op \in {"boot", "ready"} -> {"installed"}
      [] op \in {"shutdown", "halt", "reboot", "execute"} -> {"running"}
      [] op = "delete" -> {"configured", "incomplete"}
      [] OTHER -> {"installed"}   \* clone: the source zone

Done(c) == pc[c] = "idle" /\ call[c].op # ""

IsRun(e) == e.ev = "run"
\* a run of a zone tool: everything but profiles(1)
IsZoneToolRun(e) == IsRun(e) /\ e.argv # <<"profiles">>
\* a run of a command built by an operation (behind pfexec), not a listing
IsCommandRun(e) == IsRun(e) /\ e.argv[1] \in {CMD_PFEXEC, "pfexec"}
CommandRuns(c) == {k \in 1..Len(log[c]) : IsCommandRun(log[c][k])}

\* C1: a state-guarded operation whose guard read a state outside the allowed
\* set ends with the state error, and its command is neither run nor returned.
\* (The raise queries the state a second time to format its message, C17; when
\* the zone has been deleted meanwhile that query raises OSError instead.)
C1_GuardFailureRaisesStateError ==
    \A c \in DOMAIN pc :
        (Done(c) /\ call[c].op \in GuardedOps /\ obs[c].queried
            /\ obs[c].state \notin AllowedByTable(call[c].op))
        => /\ ret[c].kind = "ZoneException"
           /\ ret[c].why = "state"
           /\ ret[c].cmds = <<>>
           /\ CommandRuns(c) = {}

\* C5: in a mutating operation executed for real, a permission check precedes
\* every zone-tool run, and once a check has raised the call is over, with
\* PrivilegesError, and has run no zone tool at all.
C5_CheckBeforeAnyZoneTool ==
    \A c \in DOMAIN pc :
        (call[c].op \in MutatingOps /\ ~call[c].print_cmd) =>
            \A k \in 1..Len(log[c]) :
                /\ IsZoneToolRun(log[c][k]) =>
                      \E j \in 1..(k - 1) :
                          log[c][j].ev = "check" /\ log[c][j].res # "PrivilegesError"
                /\ (log[c][k].ev = "check" /\ log[c][k].res = "PrivilegesError") =>
                      /\ pc[c] = "idle"
                      /\ ret[c].kind = "PrivilegesError"
                      /\ k = Len(log[c])
                      /\ \A j \in 1..Len(log[c]) : ~IsZoneToolRun(log[c][j])

C5_Witness ==
    \E c \in DOMAIN pc :
        /\ call[c].op = "execute"
        /\ ~call[c].print_cmd
        /\ Done(c)
        /\ ret[c].kind = "PrivilegesError"
        /\ log[c] = <<Chk("PrivilegesError")>>
        /\ registry[OwnZone(c)] = "running"

\* the clone command of the specification
CloneArgv(c) == <<CMD_PFEXEC, CMD_ZONEADM, "-z", OwnZone(c), "clone", SourceZone>>

\* C6: clone is guarded by the source zone's live state: with the source read as
\* installed it returns (dry run) or runs the clone command; with the source in
\* any other state it raises the state error and produces no clone command.
\* (The code passes the bare integer as state_list, so the guard raises TypeError.)
C6_CloneGuardedBySource ==
    \A c \in DOMAIN pc :
        (Done(c) /\ call[c].op = "clone" /\ obs[c].queried) =>
            IF obs[c].state = "installed"
            THEN IF call[c].print_cmd
                 THEN ret[c] = Value(<<CloneArgv(c)>>)
                 ELSE \E k \in CommandRuns(c) : log[c][k].argv = CloneArgv(c)
            ELSE /\ ret[c].kind = "ZoneException"
                 /\ ret[c].why = "state"
                 /\ CommandRuns(c) = {}

\* the command of each guarded operation, as the specification words it
VerbArgv(c) ==
    CASE call[c].op \in {"boot", "ready", "shutdown", "halt", "install"} ->
            <<CMD_PFEXEC, CMD_ZONEADM, "-z", OwnZone(c), call[c].op>>
      [] call[c].op = "reboot" ->
            <<CMD_PFEXEC, CMD_ZONEADM, "-z", OwnZone(c), "shutdown", "-r">>
      [] call[c].op = "uninstall" ->
            <<CMD_PFEXEC, CMD_ZONEADM, "-z", OwnZone(c), "uninstall", "-F">>
      [] call[c].op = "execute" ->
            IF call[c].a2 = ""
            THEN <<CMD_PFEXEC, CMD_ZLOGIN, OwnZone(c), call[c].a1>>
            ELSE <<CMD_PFEXEC, CMD_ZLOGIN, "-l", call[c].a2, OwnZone(c), call[c].a1>>
      [] OTHER -> <<>>   \* delete: no verb stated

VerbMatches(c, argv) ==
    IF call[c].op = "delete" THEN argv[2] = CMD_ZONECFG ELSE argv = VerbArgv(c)

\* C7: for an authorized caller, the guard of each lifecycle operation passes
\* exactly when the state it read is in the operation's allowed set, and the
\* operation then issues exactly one command, with the matching verb (returned
\* instead when print_cmd is set); with a failed guard it issues none.
C7_GuardThenOneCommand ==
    \A c \in DOMAIN pc :
        (call[c].op \in GuardedOps /\ obs[c].queried /\ ~CheckRaises) =>
            /\ obs[c].passed <=> obs[c].state \in AllowedByTable(call[c].op)
            /\ ~obs[c].passed => CommandRuns(c) = {} /\ ret[c].cmds = <<>>
            /\ (obs[c].passed /\ pc[c] = "exec") =>
                  CommandRuns(c) = {} /\ VerbMatches(c, cmd[c])
            /\ (obs[c].passed /\ Done(c)) =>
                  IF call[c].print_cmd
                  THEN /\ CommandRuns(c) = {}
                       /\ Len(ret[c].cmds) = 1
                       /\ VerbMatches(c, ret[c].cmds[1])
                  ELSE /\ Cardinality(CommandRuns(c)) = 1
                       /\ \A k \in CommandRuns(c) : VerbMatches(c, log[c][k].argv)

C7_Witness ==
    \E c \in DOMAIN pc :
        /\ call[c].op = "reboot"
        /\ Done(c)
        /\ obs[c].passed
        /\ ret[c] = Value(<<>>)
        /\ \E k \in CommandRuns(c) :
              log[c][k] = Run(<<CMD_PFEXEC, CMD_ZONEADM, "-z", "z1", "shutdown", "-r">>, TRUE)

\* the script of create, as the specification words it
CreateScript(c) ==
    "create -t " \o call[c].a1 \o ";set zonepath=" \o zone_attr[c][ZONE_ENTRY.ZROOT]
        \o ";exit"

IsZonecfgRun(e) == IsRun(e) /\ CMD_ZONECFG \in SeqRange(e.argv)
ZonecfgRuns(c) == {k \in 1..Len(log[c]) : IsZonecfgRun(log[c][k])}
CreateCmds(c) == {log[c][k].argv : k \in ZonecfgRuns(c)} \cup SeqRange(ret[c].cmds)
                    \cup (IF cmd[c] = <<>> THEN {} ELSE {cmd[c]})

\* C8: create builds or issues its zonecfg command only if the zone was absent
\* from the listing it read and the template exists, and then the command is the
\* single script 'create -t <template>;set zonepath=<zonepath>;exit'; if the
\* zone is listed or the template is missing, create raises and no zonecfg
\* command is issued.
C8_CreatePreconditions ==
    \A c \in DOMAIN pc :
        call[c].op = "create" =>
            /\ CreateCmds(c) # {} =>
                  /\ obs[c].queried
                  /\ obs[c].state = Absent
                  /\ call[c].a1 \in TemplateFiles
                  /\ Cardinality(ZonecfgRuns(c)) <= 1
                  /\ \A argv \in CreateCmds(c) :
                        /\ Len(argv) = 5
                        /\ argv[2] = CMD_ZONECFG
                        /\ argv[3] = "-z"
                        /\ argv[4] = OwnZone(c)
                        /\ argv[5] = CreateScript(c)
            /\ (obs[c].queried /\ (obs[c].state # Absent \/ call[c].a1 \notin TemplateFiles)) =>
                  /\ Done(c)
                  /\ ret[c].kind = "ZoneException"
                  /\ ret[c].why \in {"exists", "template"}
                  /\ CreateCmds(c) = {}

C8_Witness ==
    \E c \in DOMAIN pc :
        /\ call[c].op = "create"
        /\ ~call[c].print_cmd
        /\ Done(c)
        /\ ret[c] = Value(<<>>)
        /\ obs[c].state = Absent
        /\ registry[OwnZone(c)] = "configured"
        /\ \E k \in ZonecfgRuns(c) :
              log[c][k].argv[5] = "create -t SYSdefault;set zonepath=/export/z1;exit"

-----------------------------------------------------------------------------
(* add_property on its own: SpecProp draws the property name and the dict  *)

MaxOpts == 4

PropertyNames == DOMAIN available_properties \cup {"net"}
OptKeys == UNION {SeqRange(available_properties[n]) : n \in DOMAIN available_properties}
               \cup {"bogus"}
OptsInputs ==
    {{<<k, "v_" \o k>> : k \in K} : K \in {S \in SUBSET OptKeys : Cardinality(S) <= MaxOpts}}

InitProp ==
    /\ uname \in Platforms
    /\ uid \in Uids
    /\ profiles_output = <<"Zone Management", "Zone Security", "">>
    /\ registry \in {[z \in ZoneNames |-> st] : st \in {"configured", Absent}}
    /\ perm_in = DefaultProfiles
    /\ perm_out = "none"
    /\ InitPure
    /\ InitObjects

\* one add_property call per behaviour, on a fresh Zone object
NextProp ==
    \/ \E c \in DOMAIN pc, n \in PropertyNames, o \in OptsInputs, p \in BOOLEAN :
          call[c] = NoCall /\ AddProperty(c, n, o, p)
    \/ \E c \in DOMAIN pc : Exec(c)

SpecProp == InitProp /\ [][NextProp]_vars

\* a well-formed add script for the call: add <name>, one set per supplied key
\* (in some order), end, exit, joined by ';', as the last of five arguments
WellFormedAdd(c, argv) ==
    /\ Len(argv) = 5
    /\ SubSeq(argv, 1, 4) = <<CMD_PFEXEC, CMD_ZONECFG, "-z", OwnZone(c)>>
    /\ \E order \in Orders(DictKeys(call[c].opts)) :
          argv[5] = Join(<<"add " \o call[c].a1>>
                           \o [k \in 1..Len(order) |->
                                 "set " \o order[k] \o "=" \o DictGet(call[c].opts, order[k])]
                           \o <<"end", "exit">>, ";")

SchemaMatches(c) ==
    /\ call[c].a1 \in DOMAIN available_properties
    /\ DictKeys(call[c].opts) = SeqRange(available_properties[call[c].a1])

\* C9: add_property with an unknown property name, or with a key set that is
\* not exactly the schema of the property, fails before any external command;
\* with the exact key set it produces exactly one zonecfg invocation (returned
\* under print_cmd), whose script is add / set ... / end / exit joined by ';'.
C9_AddPropertyValidation ==
    \A c \in DOMAIN pc :
        call[c].op = "add_property" =>
            IF ~SchemaMatches(c)
            THEN /\ Done(c)
                 /\ ret[c].kind \in {"KeyError", "TypeError", "ValueError"}
                 /\ ret[c].cmds = <<>>
                 /\ log[c] = <<>>
            ELSE /\ call[c].print_cmd =>
                      /\ Done(c)
                      /\ log[c] = <<>>
                      /\ Len(ret[c].cmds) = 1
                      /\ WellFormedAdd(c, ret[c].cmds[1])
                 /\ (~call[c].print_cmd /\ pc[c] = "exec") =>
                      log[c] = <<>> /\ WellFormedAdd(c, cmd[c])
                 /\ (~call[c].print_cmd /\ Done(c)) =>
                      IF CheckRaises THEN ZonecfgRuns(c) = {}
                      ELSE /\ Cardinality(ZonecfgRuns(c)) = 1
                           /\ \A k \in ZonecfgRuns(c) : WellFormedAdd(c, log[c][k].argv)

C9_Witness ==
    \E c \in DOMAIN pc :
        /\ call[c].op = "add_property"
        /\ call[c].a1 = "capped-memory"
        /\ DictKeys(call[c].opts) = {"physical", "swap", "locked"}
        /\ ~call[c].print_cmd
        /\ Done(c)
        /\ ret[c] = Value(<<>>)
        /\ \E k \in ZonecfgRuns(c) :
              log[c][k].argv[5] =
                  "add capped-memory;set physical=v_physical;set swap=v_swap;set locked=v_locked;end;exit"

-----------------------------------------------------------------------------
(* set_attr on its own: SpecAttr draws the key and the value               *)

MaxAttrKey == 8

AttrInputs == (0 - 1)..MaxAttrKey
AttrValues == {"a", "b"}

InitAttr ==
    /\ uname = "SunOS"
    /\ uid = 0
    /\ profiles_output = <<"">>
    /\ registry = [z \in ZoneNames |-> Absent]
    /\ perm_in = DefaultProfiles
    /\ perm_out = "none"
    /\ InitPure
    /\ InitObjects

NextAttr == \E c \in DOMAIN pc, attr \in AttrInputs, value \in AttrValues : SetAttr(c, attr, value)

SpecAttr == InitAttr /\ [][NextAttr]_vars

\* the canonical field enumeration: id, name, state, root path, uuid, brand, ip-type
CanonicalKeys == 0..6

\* C10: a set_attr with a key outside the canonical enumeration raises and
\* leaves the attribute set as it was; with a key inside it sets that key to the
\* value and leaves every other key as it was.
C10_SetAttrWhitelist ==
    [][\A c \in DOMAIN pc :
          call'[c].op = "set_attr" =>
              IF call'[c].key \in CanonicalKeys
              THEN /\ ret'[c].kind = "value"
                   /\ DOMAIN zone_attr'[c] = DOMAIN zone_attr[c] \cup {call'[c].key}
                   /\ zone_attr'[c][call'[c].key] = call'[c].a1
                   /\ \A j \in DOMAIN zone_attr[c] \ {call'[c].key} :
                         zone_attr'[c][j] = zone_attr[c][j]
              ELSE /\ ret'[c].kind = "ZoneException"
                   /\ zone_attr'[c] = zone_attr[c]]_vars

C10_Witness ==
    \E c \in DOMAIN pc :
        /\ call[c].op = "set_attr"
        /\ call[c].key = 7
        /\ ret[c] = Raise("ZoneException", "attr")
        /\ DOMAIN zone_attr[c] = {1, 3, 5}
        /\ zone_attr[c][3] = "a"

-----------------------------------------------------------------------------
(* list_zones on its own: SpecList draws what `zoneadm list -pc` prints and *)
(* the pattern.  A text is a sequence of pieces: the separators ":" and     *)
(* "\n", and runs of other characters.                                      *)

MaxLines == 2

\* str.split(sep) on a text: the texts between the separators, empty ones kept
RECURSIVE Split(_, _)
Split(text, sep) ==
    IF \A i \in 1..Len(text) : text[i] # sep THEN <<text>>
    ELSE LET i == CHOOSE j \in 1..Len(text) :
                      text[j] = sep /\ \A h \in 1..(j - 1) : text[h] # sep
         IN <<SubSeq(text, 1, i - 1)>> \o Split(SubSeq(text, i + 1, Len(text)), sep)

\* the string a text without separators stands for
Str(text) == Join(text, "")

\* line.split(":") that drops the empty fields, as line.split() does for blanks
Fields_skip_empty(line) ==
    LET parts == SelectSeq(Split(line, ":"), LAMBDA t : Len(t) > 0)
    IN [k \in 0..(Len(parts) - 1) |-> Str(parts[k + 1])]

\* line.split(":"), as a Python list (index 0 first) of strings
Fields(line) ==
    LET parts == Split(line, ":") IN [k \in 0..(Len(parts) - 1) |-> Str(parts[k + 1])]

\* a pattern argument: None, or a regular expression without metacharacters
NoPattern == [given |-> FALSE, re |-> ""]
Pattern(re) == [given |-> TRUE, re |-> re]

NameTails == {"", "1", "2", "eb1", "eb2", "b", "web1", "web2", "db", "myzone"}

\* re.match(pattern, name) for a literal pattern: name starts with it
re_match(re, name) == \E t \in NameTails : name = re \o t

\* the filter of list_zones applied to the zone id instead of the zone name
passes_on_id(pattern, fields) ==
    ~(pattern.given /\ pattern.re # "") \/ re_match(pattern.re, fields[ZONE_ENTRY.ZID])

\* not (pattern and not re.match(pattern, line[ZONE_ENTRY['ZNAME']]))
passes(pattern, fields) ==
    ~(pattern.given /\ pattern.re # "") \/ re_match(pattern.re, fields[ZONE_ENTRY.ZNAME])

\* tmp_zone = Zone(line[ZNAME]), then set_attr(tmp_zone, item, line) for every
\* item of ZONE_ENTRY.values()
zone_of_line(fields) == Refreshed(NewZone(fields[ZONE_ENTRY.ZNAME]), fields)

RECURSIVE zlist(_, _)
\* the loop of list_zones over str(stdout).split("\n")
zlist(lines, pattern) ==
    IF Len(lines) = 0 THEN <<>>
    ELSE IF Len(lines[1]) = 0 THEN zlist(Tail(lines), pattern)
    ELSE LET fields == Fields(lines[1]) IN
         IF ~passes(pattern, fields) THEN zlist(Tail(lines), pattern)
         ELSE <<zone_of_line(fields)>> \o zlist(Tail(lines), pattern)

\* list_zones(pattern) on a process that prints stdout and exits with code:
\* the processes it ran, and the list it returns or the error it raises
list_zones_pattern(stdout, code, pattern) ==
    IF code # 0
    THEN [runs |-> <<ListCmd>>, kind |-> "OSError", zones |-> <<>>]
    ELSE [runs |-> <<ListCmd>>, kind |-> "value",
          zones |-> zlist(Split(stdout, "\n"), pattern)]

\* what the tool prints for its lines: each line's fields joined by ":", each
\* line ended by "\n"; an empty field has no piece
RECURSIVE LineText(_)
LineText(fs) ==
    IF Len(fs) = 0 THEN <<>>
    ELSE (IF fs[1] = "" THEN <<>> ELSE <<fs[1]>>)
            \o (IF Len(fs) = 1 THEN <<>> ELSE <<":">> \o LineText(Tail(fs)))

RECURSIVE Printed(_)
Printed(lines) ==
    IF Len(lines) = 0 THEN <<>>
    ELSE LineText(lines[1]) \o <<"\n">> \o Printed(Tail(lines))

ListNames == {"web1", "web2", "db"}

\* the lines of the tool: zoneid:zonename:state:zonepath:uuid:brand:ip-type, on
\* newer systems followed by r/w:file-mac-profile; a zone that is not running
\* has the id "-", one that was never installed an empty uuid; a blank line
ToolLines ==
    {<<"1", n, "running", "/zones/" \o n, "uuid-" \o n, "solaris", "shared">> :
        n \in ListNames}
    \cup {<<"-", n, "configured", "/zones/" \o n, "", "solaris", "excl", "rw", "none">> :
             n \in ListNames}
    \cup {<<"0", "myzone", "running", "/zones/myzone", "uuid1", "solaris", "shared">>}
    \cup {<<>>}

ListPatterns == {NoPattern, Pattern(""), Pattern("web"), Pattern("web1"), Pattern("1")}

InitList ==
    /\ uname = "SunOS"
    /\ uid = 0
    /\ profiles_output = <<"">>
    /\ registry = [z \in ZoneNames |-> Absent]
    /\ perm_in = DefaultProfiles
    /\ perm_out = "none"
    /\ \E lines \in UNION {[1..n -> ToolLines] : n \in 0..MaxLines},
          code \in {0, 1}, pattern \in ListPatterns :
          list_in = [lines |-> lines, stdout |-> Printed(lines), code |-> code,
                     pattern |-> pattern]
    /\ list_out = <<>>
    /\ run_in = <<>>
    /\ run_out = <<>>
    /\ InitObjects

\* list_zones(pattern), once
ListZones ==
    /\ list_out = <<>>
    /\ list_out' = list_zones_pattern(list_in.stdout, list_in.code, list_in.pattern)
    /\ UNCHANGED <<host, perm, registry, zone_attr, pc, call, obs, log, cmd, ret,
                   list_in, run_in, run_out>>

NextList == ListZones

SpecList == InitList /\ [][NextList]_vars

\* the unfiltered list_zones() on the same output
Unfiltered == list_zones_pattern(list_in.stdout, list_in.code, NoPattern).zones

\* C11: for every listing output and every pattern, list_zones(pattern) returns
\* exactly the zones of the unfiltered list_zones() whose names match the
\* pattern, in the same relative order.
C11_FilterIsSubsequence ==
    (list_out # <<>> /\ list_out.kind = "value" /\ list_in.pattern.given) =>
        list_out.zones =
            SelectSeq(Unfiltered, LAMBDA z : re_match(list_in.pattern.re, get_name(z)))

C11_Witness ==
    /\ list_out # <<>>
    /\ list_in.pattern = Pattern("web")
    /\ Len(Unfiltered) = 2
    /\ get_name(Unfiltered[1]) = "db"
    /\ Len(list_out.zones) = 1
    /\ get_name(list_out.zones[1]) = "web2"

\* the non-empty lines of the output, in output order
NonEmptyLines == SelectSeq(list_in.lines, LAMBDA fs : Len(fs) > 0)

\* C12: list_zones runs the listing command once and returns one Zone per
\* non-empty output line, in output order, whose attributes 0..6 are the fields
\* 0..6 of that line split on ':', so that reading them back in canonical order
\* gives the line's field values; it runs no other process.
C12_OneZonePerLine ==
    list_out # <<>> =>
        /\ list_out.runs = <<ListCmd>>
        /\ (list_in.code = 0) <=> (list_out.kind = "value")
        /\ list_out.kind = "value" =>
              /\ Len(Unfiltered) = Len(NonEmptyLines)
              /\ \A k \in 1..Len(Unfiltered) :
                    /\ DOMAIN Unfiltered[k] = CanonicalKeys
                    /\ [i \in 1..7 |-> Unfiltered[k][i - 1]] = SubSeq(NonEmptyLines[k], 1, 7)
              /\ ~(list_in.pattern.given /\ list_in.pattern.re # "") =>
                    list_out.zones = Unfiltered

C12_Witness ==
    /\ list_out # <<>>
    /\ list_in.pattern = NoPattern
    /\ list_in.stdout = <<"0", ":", "myzone", ":", "running", ":", "/zones/myzone", ":",
                          "uuid1", ":", "solaris", ":", "shared", "\n", "\n">>
    /\ Len(list_out.zones) = 1
    /\ list_out.zones[1][ZONE_ENTRY.ZNAME] = "myzone"
    /\ list_out.zones[1][ZONE_ENTRY.ZSTATE] = "running"
    /\ list_out.zones[1][ZONE_ENTRY.ZROOT] = "/zones/myzone"
    /\ list_out.zones[1][ZONE_ENTRY.ZBRAND] = "solaris"

-----------------------------------------------------------------------------
(* Dry run and command construction, under Spec                            *)

LifecycleOps == GuardedOps \cup {"create", "clone"}

\* a step of caller c
StepOf(c) == pc'[c] # pc[c] \/ log'[c] # log[c] \/ call'[c] # call[c] \/ ret'[c] # ret[c]

\* C13 as stated: every lifecycle operation has a dry-run mode: a call made
\* with print_cmd that is neither refused (permission, state, precondition) nor
\* failed by the tool returns its argument vector(s) and issues no command.
C13_EveryOpHasDryRun ==
    \A c \in DOMAIN pc :
        (Done(c) /\ call[c].op \in LifecycleOps /\ call[c].print_cmd
            /\ ret[c].kind \notin {"PrivilegesError", "ZoneException", "OSError", "KeyError"})
        => /\ ret[c].kind = "value"
           /\ Len(ret[c].cmds) >= 1
           /\ CommandRuns(c) = {}

\* C13, amended: a call made with print_cmd never issues a mutating command and
\* its steps leave the registry as it is; boot, install and execute, once their
\* guard has passed, and create, once its preconditions hold and with its
\* zonepath set, return the list of the one constructed argument vector; clone returns nothing (C6); ready,
\* shutdown, halt, reboot, uninstall and delete have no print_cmd parameter and
\* a call with one is refused with TypeError before anything is run.
C13_DryRunWhereOffered ==
    [][\A c \in DOMAIN pc :
          call'[c].print_cmd =>
              /\ StepOf(c) => registry' = registry
              /\ (CommandRuns(c) = {})'
              /\ pc'[c] # "exec"
              /\ call'[c].op \in NoPrintCmdOps =>
                    (Done(c))' /\ ret'[c] = Raise("TypeError", "") /\ log'[c] = <<>>
              /\ call'[c].op = "clone" => ret'[c].kind # "value"
              /\ ((Done(c))' /\ call'[c].op \in {"boot", "install", "execute", "create"}
                    /\ obs'[c].passed
                    /\ (call'[c].op = "create" => ZONE_ENTRY.ZROOT \in DOMAIN zone_attr'[c])) =>
                    /\ ret'[c].kind = "value"
                    /\ Len(ret'[c].cmds) = 1
                    /\ IF call'[c].op = "create"
                       THEN ret'[c].cmds[1][5] = (CreateScript(c))'
                       ELSE (VerbMatches(c, ret[c].cmds[1]))'
              /\ ret'[c].kind = "value" => obs'[c].passed \/ call'[c].op \notin LifecycleOps
      ]_vars

C13_Witness ==
    \E c \in DOMAIN pc :
        /\ call[c].op = "install"
        /\ call[c].print_cmd
        /\ Done(c)
        /\ obs[c].state = "configured"
        /\ registry[OwnZone(c)] = "configured"
        /\ log[c] = CheckEvents \o CheckEvents \o <<Run(StateCmd("z1"), TRUE)>>
        /\ ret[c] = Value(<<<<CMD_PFEXEC, CMD_ZONEADM, "-z", "z1", "install">>>>)

\* the arguments an operation built: run, waiting to be run, or returned
IsQuery(argv) == argv[1] \in {CMD_ZONEADM, "profiles"}
BuiltCmds(c) ==
    {log[c][k].argv : k \in {j \in 1..Len(log[c]) : IsRun(log[c][j]) /\ ~IsQuery(log[c][j].argv)}}
        \cup SeqRange(ret[c].cmds)
        \cup (IF cmd[c] = <<>> THEN {} ELSE {cmd[c]})

\* pfexec, by its path or looked up in PATH
ElevationTools == {CMD_PFEXEC, "pfexec"}

\* elevation tool, target tool and, for zoneadm and zonecfg, -z <zonename>
WellPrefixed(c, argv) ==
    /\ Len(argv) >= 4
    /\ argv[1] \in ElevationTools
    /\ argv[2] \in {CMD_ZONEADM, CMD_ZONECFG, CMD_ZLOGIN}
    /\ argv[2] \in {CMD_ZONEADM, CMD_ZONECFG} => argv[3] = "-z" /\ argv[4] = OwnZone(c)
    /\ argv[2] = CMD_ZLOGIN => argv[Len(argv) - 1] = OwnZone(c)

\* what precedes the final exit in the script of the call
ScriptBodies(c) ==
    CASE call[c].op = "create" ->
            IF ZONE_ENTRY.ZROOT \in DOMAIN zone_attr[c]
            THEN {"create -t " \o call[c].a1 \o ";set zonepath="
                    \o zone_attr[c][ZONE_ENTRY.ZROOT]}
            ELSE {}
      [] call[c].op = "add_property" ->
            {Join(<<"add " \o call[c].a1>>
                    \o [k \in 1..Len(order) |->
                          "set " \o order[k] \o "=" \o DictGet(call[c].opts, order[k])]
                    \o <<"end">>, ";") : order \in Orders(DictKeys(call[c].opts))}
      [] call[c].op = "remove_property" -> {"remove " \o call[c].a1}
      [] call[c].op = "zonecfg_set" -> {"set " \o call[c].a1 \o "=" \o call[c].a2}
      [] OTHER -> {}

\* the last sub-command, exit, as it follows the ';' (remove_property puts a
\* blank before it)
ExitForms == {"exit", " exit"}

\* the final argument is one ';'-joined script whose last sub-command is exit
ScriptEndsWithExit(c, argv) ==
    /\ Len(argv) = 5
    /\ \E body \in ScriptBodies(c), e \in ExitForms : argv[5] = body \o ";" \o e

ZonecfgCallers == {"create", "add_property", "remove_property", "zonecfg_set", "delete"}

\* C14 as stated: every command an operation builds starts with the elevation
\* tool, then the target tool and, for zoneadm and zonecfg, '-z <zonename>';
\* every zonecfg command of create, add_property, remove_property, the set
\* helper and delete ends in one ';'-joined script whose last sub-command is
\* exit.
C14_PrefixAndExitScript ==
    \A c \in DOMAIN pc : \A argv \in BuiltCmds(c) :
        /\ WellPrefixed(c, argv)
        /\ (call[c].op \in ZonecfgCallers /\ argv[2] = CMD_ZONECFG) =>
              ScriptEndsWithExit(c, argv)

\* C14, amended: the same, except that delete's zonecfg command carries no
\* script: its arguments after '-z <zonename>' are 'delete', '-F'.
C14_PrefixAndExitScriptButDelete ==
    \A c \in DOMAIN pc : \A argv \in BuiltCmds(c) :
        /\ WellPrefixed(c, argv)
        /\ argv[2] = CMD_ZONECFG <=> call[c].op \in ZonecfgCallers
        /\ (call[c].op \in ZonecfgCallers \ {"delete"}) => ScriptEndsWithExit(c, argv)
        /\ call[c].op = "delete" =>
              argv = <<CMD_PFEXEC, CMD_ZONECFG, "-z", OwnZone(c), "delete", "-F">>

C14_Witness ==
    \E c \in DOMAIN pc :
        /\ call[c].op = "zonecfg_set"
        /\ Done(c)
        /\ ret[c] = Value(<<>>)
        /\ BuiltCmds(c) = {<<CMD_PFEXEC, CMD_ZONECFG, "-z", "z1", "set autoboot=true;exit">>}

-----------------------------------------------------------------------------
(* Two callers on one zone: SpecRace has two Zone objects of the same name, *)
(* each running install and boot, and no external administrator.           *)

RaceCallers == {"c1", "c2"}

InitRace ==
    /\ uname \in Platforms
    /\ uid \in Uids
    /\ profiles_output = <<"Zone Management", "Zone Security", "">>
    /\ registry = [z \in ZoneNames |-> IF z = SourceZone THEN "installed" ELSE "configured"]
    /\ perm_in = DefaultProfiles
    /\ perm_out = "none"
    /\ InitPure
    /\ zone_attr = [c \in RaceCallers |-> NewZone(OwnZone(c))]
    /\ pc = [c \in RaceCallers |-> "idle"]
    /\ call = [c \in RaceCallers |-> NoCall]
    /\ obs = [c \in RaceCallers |-> NoObs]
    /\ log = [c \in RaceCallers |-> <<>>]
    /\ cmd = [c \in RaceCallers |-> <<>>]
    /\ ret = [c \in RaceCallers |-> NoRet]

NextRace ==
    \/ \E c \in DOMAIN pc : Install(c, FALSE)
    \/ \E c \in DOMAIN pc : Boot(c, FALSE)
    \/ \E c \in DOMAIN pc : GuardQuery(c)
    \/ \E c \in DOMAIN pc : ErrQuery(c)
    \/ \E c \in DOMAIN pc : Exec(c)

SpecRace == InitRace /\ [][NextRace]_vars

\* C15: nothing serializes two callers: a caller whose guard has passed issues
\* its command whatever the other caller has done to the zone meanwhile, so two
\* callers of install (or boot) can both pass the guard and both issue the
\* command, the second with the zone no longer in the allowed state.
C15_GuardPassedCommandIssued ==
    [][\A c \in DOMAIN pc :
          (pc[c] = "exec" /\ pc'[c] = "idle" /\ ~CheckRaises) =>
              /\ obs[c].passed
              /\ Len(log'[c]) = Len(log[c]) + Len(CheckEvents) + 1
              /\ log'[c][Len(log'[c])].ev = "run"
              /\ log'[c][Len(log'[c])].argv = cmd[c]
              /\ log'[c][Len(log'[c])].res = "0" =>
                    (RegState(OwnZone(c)) # Absent
                       /\ ZONE_STATE[RegState(OwnZone(c))] \in state_list(call[c].op).items)
      ]_vars

\* both callers installed: both guards read configured, both commands were
\* issued, the first succeeded and the second found the zone already installed
C15_Witness ==
    /\ \A c \in RaceCallers :
          /\ call[c].op = "install"
          /\ Done(c)
          /\ obs[c].passed
          /\ obs[c].state = "configured"
          /\ Cardinality(CommandRuns(c)) = 1
    /\ log["c1"][Len(log["c1"])] = Run(<<CMD_PFEXEC, CMD_ZONEADM, "-z", "z1", "install">>, TRUE)
    /\ log["c2"][Len(log["c2"])] = Run(<<CMD_PFEXEC, CMD_ZONEADM, "-z", "z1", "install">>, FALSE)
    /\ ret["c1"] = Value(<<>>)
    /\ ret["c2"] = Raise("OSError", "")
    /\ registry["z1"] = "installed"

-----------------------------------------------------------------------------
(* The guard's read and the state error, under Spec                        *)

AllGuardedOps == GuardedOps \cup {"clone"}

\* C16: the guard of a state-guarded operation decides on the state that a
\* listing query issued in that same call returns, never on the state the Zone
\* object holds from an earlier call: the guard's step runs the query, and what
\* it compares is the registry's state at that step.
C16_GuardReadsLiveState ==
    [][\A c \in DOMAIN pc :
          (pc[c] = "guard" /\ pc'[c] # "guard" /\ ~CheckRaises) =>
              LET zname == GuardedName(c)
                  sl == state_list(call[c].op)
                  last == log'[c][Len(log'[c])]
              IN
              /\ call[c].op \in AllGuardedOps
              /\ Len(log'[c]) = Len(log[c]) + Len(CheckEvents) + 1
              /\ last.ev = "run" /\ last.argv = StateCmd(zname)
              /\ IF RegState(zname) = Absent
                 THEN last.res = "1" /\ ret'[c] = Raise("OSError", "") /\ ~obs'[c].queried
                 ELSE /\ last.res = "0"
                      /\ obs'[c].queried
                      /\ obs'[c].state = RegState(zname)
                      /\ obs'[c].passed <=>
                            (sl.iterable /\ ZONE_STATE[RegState(zname)] \in sl.items)
                      /\ (sl.iterable /\ ~obs'[c].passed) <=> pc'[c] = "errmsg"
                      /\ obs'[c].passed =>
                            (pc'[c] = "exec" \/ ret'[c].kind \in {"value", "NameError"})
      ]_vars

\* boot on an object that held installed from an earlier call, with the zone
\* now running: the guard read running and refused
C16_Witness ==
    \E c \in DOMAIN pc :
        /\ call[c].op = "boot"
        /\ Done(c)
        /\ obs[c].queried
        /\ obs[c].stale
        /\ obs[c].state = "running"
        /\ ~obs[c].passed
        /\ ret[c] = StateError({ZONE_STATE.installed}, ZONE_STATE.running)
        /\ CommandRuns(c) = {}

\* C17: the state a state error names is the state on which the guard failed:
\* it is the state the guard read, and never a member of the allowed set.  (The
\* message is formatted from a second query, made after the test.)
C17_ReportedIsGuardState ==
    \A c \in DOMAIN pc :
        (Done(c) /\ ret[c].kind = "ZoneException" /\ ret[c].why = "state") =>
            /\ obs[c].queried
            /\ ret[c].reported = ZONE_STATE[obs[c].state]
            /\ ret[c].reported \notin ret[c].allowed

-----------------------------------------------------------------------------
(* The Zone object's name: SpecName has the attribute operations (set_attr  *)
(* on the name too, reads with and without refresh, refresh_all_info) next  *)
(* to lifecycle operations and the external administrator.                  *)

InitName ==
    /\ uname \in Platforms
    /\ uid = 0
    /\ profiles_output = <<"Zone Management", "Zone Security", "">>
    /\ registry = [z \in ZoneNames |-> "installed"]
    /\ perm_in = DefaultProfiles
    /\ perm_out = "none"
    /\ InitPure
    /\ InitObjects

NextName ==
    \/ \E c \in DOMAIN pc, n \in ZoneNames : SetAttr(c, ZONE_ENTRY.ZNAME, n)
    \/ \E c \in DOMAIN pc, path \in ZonePaths : SetZonepath(c, path)
    \/ \E c \in DOMAIN pc, attr \in {ZONE_ENTRY.ZNAME, ZONE_ENTRY.ZSTATE, ZONE_ENTRY.ZROOT},
          refresh \in BOOLEAN : GetAttr(c, attr, refresh)
    \/ \E c \in DOMAIN pc : RefreshAllInfo(c)
    \/ \E c \in DOMAIN pc : Boot(c, FALSE)
    \/ \E c \in DOMAIN pc : Halt(c)
    \/ \E c \in DOMAIN pc : Uninstall(c)
    \/ \E c \in DOMAIN pc : GuardQuery(c)
    \/ \E c \in DOMAIN pc : ErrQuery(c)
    \/ \E c \in DOMAIN pc : Exec(c)
    \/ \E z \in ZoneNames, st \in {"installed", "running"} : ExternalChange(z, st)

SpecName == InitName /\ [][NextName]_vars

\* C18 as stated: the Zone object always has a name, and after any sequence of
\* public operations the name is the one given to the constructor.
C18_NameNeverChanges ==
    \A c \in DOMAIN pc :
        /\ ZONE_ENTRY.ZNAME \in DOMAIN zone_attr[c]
        /\ get_name(zone_attr[c]) = OwnZone(c)

\* C18, amended: the Zone object always has a name, and the only operation that
\* changes it is set_attr on the name key, which sets it to the value given:
\* set_zonepath, the reads with and without refresh, refresh_all_info and the
\* lifecycle operations leave it as it is.
C18_NameChangesOnlyBySetAttr ==
    [][\A c \in DOMAIN pc :
          /\ ZONE_ENTRY.ZNAME \in DOMAIN zone_attr'[c]
          /\ get_name(zone_attr'[c]) # get_name(zone_attr[c]) =>
                /\ call'[c].op = "set_attr"
                /\ call'[c].key = ZONE_ENTRY.ZNAME
                /\ get_name(zone_attr'[c]) = call'[c].a1
                /\ pc[c] = "idle" /\ pc'[c] = "idle"
      ]_vars

\* an object renamed to z2 and then refreshed and booted: it still names z2
C18_Witness ==
    \E c \in DOMAIN pc :
        /\ get_name(zone_attr[c]) = "z2"
        /\ call[c].op = "boot"
        /\ Done(c)
        /\ ret[c] = Value(<<>>)
        /\ zone_attr[c][ZONE_ENTRY.ZSTATE] = "installed"
        /\ zone_attr[c][ZONE_ENTRY.ZROOT] = "/zones/z2"
        /\ registry["z2"] = "running"

-----------------------------------------------------------------------------
(* getoutputs on its own: SpecRun draws the command, the check_privileges   *)
(* flag and what the process does (exit code, what it writes to stdout and  *)
(* to stderr).                                                              *)

MaxCode == 2

\* a value of communicate(): the text read from a pipe, or None for a stream
\* that has no pipe
Captured(text) == <<text>>
None == <<>>

\* Popen(cmd, stdout=subprocess.PIPE).communicate(): stderr is not piped
communicate(process) == [stdout |-> Captured(process.out), stderr |-> None]

\* getoutputs(cmd, check_privileges) on a process; check is the outcome of
\* check_user_permissions().  The OSError's message is formatted from str(cmd),
\* ret, stderr and stdout.
getoutputs(argv, check_privileges, check, process) ==
    IF check_privileges /\ check = "PrivilegesError"
    THEN [kind |-> "PrivilegesError", argv |-> <<>>, code |-> 0,
          stdout |-> None, stderr |-> None]
    ELSE LET streams == communicate(process) IN
         IF process.code # 0
         THEN [kind |-> "OSError", argv |-> argv, code |-> process.code,
               stdout |-> streams.stdout, stderr |-> streams.stderr]
         ELSE [kind |-> "value", argv |-> <<>>, code |-> 0,
               stdout |-> streams.stdout, stderr |-> None]

RunCmds == {StateCmd("z1"), <<CMD_PFEXEC, CMD_ZONEADM, "-z", "z1", "boot">>}
RunStdouts == {"", "1:z1:running:/zones/z1:uuid-z1:solaris:shared\n"}
RunStderrs == {"", "zoneadm: z1: No such zone configured\n"}

InitRun ==
    /\ uname \in Platforms
    /\ uid \in Uids
    /\ profiles_output = <<"Zone Management", "Zone Security", "">>
    /\ registry = [z \in ZoneNames |-> Absent]
    /\ perm_in = DefaultProfiles
    /\ perm_out = "none"
    /\ list_in = <<>>
    /\ list_out = <<>>
    /\ \E argv \in RunCmds, chk \in BOOLEAN, code \in 0..MaxCode, out \in RunStdouts,
          err \in RunStderrs :
          run_in = [argv |-> argv, check_privileges |-> chk,
                    process |-> [code |-> code, out |-> out, err |-> err]]
    /\ run_out = <<>>
    /\ InitObjects

\* getoutputs(cmd, check_privileges), once
GetOutputs ==
    /\ run_out = <<>>
    /\ run_out' = getoutputs(run_in.argv, run_in.check_privileges, CheckResult,
                             run_in.process)
    /\ UNCHANGED <<host, perm, registry, zone_attr, pc, call, obs, log, cmd, ret,
                   list_in, list_out, run_in>>

NextRun == GetOutputs

SpecRun == InitRun /\ [][NextRun]_vars

\* C19: when the command exits with a non-zero code the runner raises an
\* execution error carrying the argument vector, the exit code, the captured
\* stdout and the captured stderr; when it exits with zero the runner returns
\* the stdout verbatim.  (The code opens no pipe for stderr: the error carries
\* None in its place.)
C19_ErrorCarriesBothStreams ==
    (run_out # <<>> /\ run_out.kind # "PrivilegesError") =>
        IF run_in.process.code # 0
        THEN /\ run_out.kind = "OSError"
             /\ run_out.argv = run_in.argv
             /\ run_out.code = run_in.process.code
             /\ run_out.stdout = Captured(run_in.process.out)
             /\ run_out.stderr = Captured(run_in.process.err)
        ELSE /\ run_out.kind = "value"
             /\ run_out.stdout = Captured(run_in.process.out)

-----------------------------------------------------------------------------
(* The state machine without the administrator: SpecClosed has one caller   *)
(* running the state-guarded operations on a zone that starts in any state. *)

InitClosed ==
    /\ uname \in Platforms
    /\ uid \in Uids
    /\ profiles_output = <<"Zone Management", "Zone Security", "">>
    /\ registry \in {[z \in ZoneNames |-> IF z = SourceZone THEN "installed" ELSE st] :
                        st \in StateNames}
    /\ perm_in = DefaultProfiles
    /\ perm_out = "none"
    /\ InitPure
    /\ InitObjects

NextClosed ==
    \/ \E c \in DOMAIN pc : Install(c, FALSE)
    \/ \E c \in DOMAIN pc : Uninstall(c)
    \/ \E c \in DOMAIN pc : Boot(c, FALSE)
    \/ \E c \in DOMAIN pc : Ready(c)
    \/ \E c \in DOMAIN pc : Shutdown(c)
    \/ \E c \in DOMAIN pc : Halt(c)
    \/ \E c \in DOMAIN pc : Reboot(c)
    \/ \E c \in DOMAIN pc : Delete(c)
    \/ \E c \in DOMAIN pc : Execute(c, "ls", "root", FALSE)
    \/ \E c \in DOMAIN pc : GuardQuery(c)
    \/ \E c \in DOMAIN pc : ErrQuery(c)
    \/ \E c \in DOMAIN pc : Exec(c)

SpecClosed == InitClosed /\ [][NextClosed]_vars

\* how many commands away from deleted a state is
DeletionRank(st) ==
    CASE st = Absent -> 0
      [] st \in {"configured", "incomplete"} -> 1
      [] st = "installed" -> 2
      [] st = "running" -> 3
      [] OTHER -> 4

\* the operations that bring a zone in state st nearer to deleted
TowardsDeleted(st) ==
    CASE st = "running" -> {"halt", "shutdown"}
      [] st = "installed" -> {"uninstall"}
      [] st \in {"configured", "incomplete"} -> {"delete"}
      [] OTHER -> {}

\* ready is in no operation's allowed set; an operation whose guard read ready
\* ends with the state error naming ready and runs no command
ReadyRefused ==
    /\ \A op \in GuardedOps : ZONE_STATE.ready \notin state_list(op).items
    /\ \A c \in DOMAIN pc :
          /\ (obs[c].queried /\ obs[c].state = "ready") =>
                /\ ~obs[c].passed
                /\ CommandRuns(c) = {}
                /\ pc[c] \in {"errmsg", "idle"}
                /\ Done(c) =>
                      ret[c] = StateError(state_list(call[c].op).items, ZONE_STATE.ready)
          /\ (registry[OwnZone(c)] = "ready" /\ Done(c) /\ ~CheckRaises) =>
                obs[c].queried /\ obs[c].state \in {"ready", "installed"}

\* from configured, incomplete, installed and running an authorized caller can
\* always take the next step of an operation that brings the zone nearer to
\* deleted: start it, pass its guard, run its command with success
DeletionReachable ==
    \A c \in DOMAIN pc :
        LET st == registry[OwnZone(c)] IN
        (st \in {"configured", "incomplete", "installed", "running"} /\ ~CheckRaises) =>
            /\ pc[c] = "idle" =>
                  /\ st = "running" => ENABLED Halt(c) /\ ENABLED Shutdown(c)
                  /\ st = "installed" => ENABLED Uninstall(c)
                  /\ st \in {"configured", "incomplete"} => ENABLED Delete(c)
            /\ (pc[c] = "guard" /\ call[c].op \in TowardsDeleted(st)) =>
                  ENABLED (GuardQuery(c) /\ pc'[c] = "exec")
            /\ (pc[c] = "exec" /\ call[c].op \in TowardsDeleted(st)) =>
                  ENABLED (Exec(c) /\ ret'[c] = Value(<<>>)
                             /\ DeletionRank(registry'[OwnZone(c)]) < DeletionRank(st))

\* C20: ready is a sink of this layer: no guarded operation allows it, every
\* guarded operation on a ready zone raises the state error, and no step of the
\* layer takes the zone out of ready; from configured, incomplete, installed
\* and running some sequence of the layer's operations deletes the zone.
C20_ReadyIsSink ==
    /\ [](ReadyRefused /\ DeletionReachable)
    /\ [][registry[OwnZone("c1")] = "ready" => registry'[OwnZone("c1")] = "ready"]_vars

\* a ready zone, and delete refused on it with the state error naming ready
C20_Witness ==
    \E c \in DOMAIN pc :
        /\ registry[OwnZone(c)] = "ready"
        /\ call[c].op = "delete"
        /\ Done(c)
        /\ obs[c].state = "ready"
        /\ ret[c] = StateError({ZONE_STATE.configured, ZONE_STATE.incomplete}, ZONE_STATE.ready)

====
